---- MODULE Spec2Model ----
(***************************************************************************)
(* Model of exam_builder.py: one build of an exam from a YAML source.      *)
(* A text is a sequence of one-character strings, so that the regular      *)
(* expression of strip_keys and str.startswith can be computed.  A value   *)
(* that may be Python's None is a record [some, val].                      *)
(***************************************************************************)
EXTENDS Integers, Sequences, FiniteSets, TLC

VARIABLES pc, metadata, counter, questions, doc, answers, diag,
          exit_status, exam_written, key_written

vars == <<pc, metadata, counter, questions, doc, answers, diag,
          exit_status, exam_written, key_written>>

\* ---------------------------------------------------------------- bounds
MaxBlocks == 2
MaxAnswers == 2

\* ---------------------------------------------------------------- values
None == [some |-> FALSE, val |-> <<>>]
Some(v) == [some |-> TRUE, val |-> v]

\* a plausible slip: a test for presence (`is not None`) instead of truth
is_present(o) == o.some

\* `not x` is false exactly for a value that is present and not empty
Truthy(o) == o.some /\ o.val # <<>>

\* the texts an answer entry of the source is drawn from: a marked answer
\* '+ a' and an unmarked one 'a+b' with a '+' inside
AnswerTexts ==
    { <<"+", " ", "a">>, <<"a", "+", "b">> }

QuestionTexts == { <<>>, <<"q">> }

NotesTexts == { <<"n">> }

SeqsUpTo(S, n) == UNION { [1..k -> S] : k \in 0..n }

\* the documents yaml.load_all can yield for a question block
Docs ==
    [ question : {None} \cup { Some(t) : t \in QuestionTexts },
      notes    : { Some(t) : t \in NotesTexts },
      answers  : {None} \cup { Some(s) : s \in SeqsUpTo(AnswerTexts, MaxAnswers) } ]

MetadataKeys == { "shuffle-questions", "shuffle-answers", "require-correct" }

\* the preambles yaml.load can yield: any of the three options may be absent
Preambles == UNION { [K -> BOOLEAN] : K \in SUBSET MetadataKeys }

\* dict.get(key, default)
get(m, key, default) == IF key \in DOMAIN m THEN m[key] ELSE default

\* ------------------------------------------------------------- functions
\* mkd: markdown() of plain text wraps it in a paragraph, '' stays ''
mkd(value) == IF value = <<>> THEN <<>> ELSE <<"<p>">> \o value \o <<"</p>">>

startswith(x, c) == Len(x) >= 1 /\ x[1] = c

\* list.index(x): the 0-based position of the first element equal to x
index(list, x) == (CHOOSE i \in 1..Len(list) :
                      /\ list[i] = x
                      /\ \A j \in 1..(i - 1) : list[j] # x) - 1

\* a plausible slip: the position in the filtered list instead of in answers
get_indexes_of_filtered(ans) ==
    LET filtered == SelectSeq(ans, LAMBDA x : startswith(x, "+"))
    IN  [k \in 1..Len(filtered) |-> k - 1]

get_indexes_for_answers(ans) ==
    LET filtered == SelectSeq(ans, LAMBDA x : startswith(x, "+"))
    IN  [k \in 1..Len(filtered) |-> index(ans, filtered[k])]

\* re.sub(r'\+\ ?', '', x): every '+', with one space after it if there is one
RECURSIVE re_sub(_)
re_sub(x) ==
    IF x = <<>> THEN <<>>
    ELSE IF Head(x) = "+"
         THEN IF Len(x) >= 2 /\ x[2] = " "
              THEN re_sub(SubSeq(x, 3, Len(x)))
              ELSE re_sub(Tail(x))
         ELSE <<Head(x)>> \o re_sub(Tail(x))

strip_keys(ans) == [i \in 1..Len(ans) |-> re_sub(ans[i])]

\* a plausible slip: elements drawn without removing them
shuffle_with_replacement(list, p) == [i \in 1..Len(list) |-> list[p[1]]]

\* random.shuffle: the list reordered by the permutation p of its positions
shuffle(list, p) == [i \in 1..Len(list) |-> list[p[i]]]

Identity(n) == [i \in 1..n |-> i]

\* the permutations shuffle may apply when enabled, none when disabled
Shuffles(enabled, n) == IF enabled THEN Permutations(1..n) ELSE { Identity(n) }

process_metadata(preamble) ==
    [ k \in MetadataKeys |->
        CASE k = "shuffle-questions" -> get(preamble, k, FALSE)
          [] k = "shuffle-answers"   -> get(preamble, k, TRUE)
          [] k = "require-correct"   -> get(preamble, k, TRUE) ]

\* a plausible slip: the id taken before the counter is incremented
kwargs_id_before_increment(d, c) ==
    [ id       |-> c - 1,
      question |-> mkd(d.question.val),
      notes    |-> mkd(d.notes.val),
      answers  |-> None,
      correct  |-> None,
      format   |-> "open" ]

\* a plausible slip: an empty list of indexes for a question without answers
kwargs_empty_correct(d, c) ==
    [ id       |-> c,
      question |-> mkd(d.question.val),
      notes    |-> mkd(d.notes.val),
      answers  |-> None,
      correct  |-> Some(<<>>),
      format   |-> "open" ]

\* the fields of a Question before its answers are looked at
kwargs(d, c) ==
    [ id       |-> c,
      question |-> mkd(d.question.val),
      notes    |-> mkd(d.notes.val),
      answers  |-> None,
      correct  |-> None,
      format   |-> "open" ]

NoDiag == [kind |-> "none", pos |-> 0, question |-> <<>>]

NoDoc == [question |-> None, notes |-> None, answers |-> None]

\* ------------------------------------------------------------------ state
Init ==
    /\ pc = "start"
    /\ metadata = <<>>
    /\ counter = [questions |-> 0]
    /\ questions = <<>>
    /\ doc = NoDoc
    /\ answers = <<>>
    /\ diag = NoDiag
    /\ exit_status = <<>>
    /\ exam_written = FALSE
    /\ key_written = FALSE

\* Exam.build up to the loop: the preamble is loaded and defaults are set
build_start ==
    /\ pc = "start"
    /\ \E preamble \in Preambles : metadata' = process_metadata(preamble)
    /\ pc' = "loop"
    /\ UNCHANGED <<counter, questions, doc, answers, diag,
                   exit_status, exam_written, key_written>>

\* Exam._build_question on the next document d of the source, p being the
\* permutation the answer shuffle applies
build_question(d, p) ==
    LET c == counter.questions + 1
        shuffled == shuffle(d.answers.val, p)
        correct == get_indexes_for_answers(shuffled)
        stripped == strip_keys(shuffled)
    IN
    /\ pc = "loop"
    /\ counter.questions < MaxBlocks
    /\ counter' = [counter EXCEPT !.questions = c]
    /\ doc' = d
    /\ IF ~Truthy(d.question)
       THEN /\ diag' = [kind |-> "empty", pos |-> c + 1, question |-> <<>>]
            /\ exit_status' = <<0>>
            /\ pc' = "exited"
            /\ answers' = <<>>
            /\ UNCHANGED questions
       ELSE IF Truthy(d.answers)
       THEN /\ answers' = shuffled
            /\ IF correct = <<>> /\ metadata["require-correct"]
               THEN /\ diag' = [kind |-> "need_correct", pos |-> 0,
                                question |-> kwargs(d, c).question]
                    /\ exit_status' = <<0>>
                    /\ pc' = "exited"
                    /\ UNCHANGED questions
               ELSE /\ questions' = Append(questions,
                          [kwargs(d, c) EXCEPT !.format = "choice",
                                               !.answers = Some(stripped),
                                               !.correct = Some(correct)])
                    /\ UNCHANGED <<diag, exit_status, pc>>
       ELSE /\ answers' = <<>>
            /\ questions' = Append(questions, kwargs(d, c))
            /\ UNCHANGED <<diag, exit_status, pc>>
    /\ UNCHANGED <<metadata, exam_written, key_written>>

BuildQuestion ==
    \E d \in Docs :
        \E p \in Shuffles(pc = "loop" /\ metadata["shuffle-answers"]
                              /\ Truthy(d.question) /\ Truthy(d.answers),
                          Len(d.answers.val)) :
            build_question(d, p)

\* Exam.build after the last document: the optional shuffle of the questions
\* (the locals of the last _build_question call are gone by then)
build_finish ==
    /\ pc = "loop"
    /\ \E p \in Shuffles(metadata["shuffle-questions"], Len(questions)) :
           questions' = shuffle(questions, p)
    /\ pc' = "built"
    /\ doc' = NoDoc
    /\ answers' = <<>>
    /\ UNCHANGED <<metadata, counter, diag,
                   exit_status, exam_written, key_written>>

\* a plausible slip: the exit of a failed build is caught and the exam written
write_exam_after_exit ==
    /\ pc \in {"built", "exited"}
    /\ exam_written' = TRUE
    /\ pc' = "exam_written"
    /\ UNCHANGED <<metadata, counter, questions, doc, answers, diag,
                   exit_status, key_written>>

\* build_test: exam.write_exam() once Exam(src) has returned
write_exam ==
    /\ pc = "built"
    /\ exam_written' = TRUE
    /\ pc' = "exam_written"
    /\ UNCHANGED <<metadata, counter, questions, doc, answers, diag,
                   exit_status, key_written>>

\* build_test: exam.write_key(), after which the script ends
write_key ==
    /\ pc = "exam_written"
    /\ key_written' = TRUE
    /\ exit_status' = <<0>>
    /\ pc' = "done"
    /\ UNCHANGED <<metadata, counter, questions, doc, answers, diag,
                   exam_written>>

Next ==
    \/ build_start
    \/ BuildQuestion
    \/ build_finish
    \/ write_exam
    \/ write_key

Spec == Init /\ [][Next]_vars

\* ------------------------------------------------------------ properties
\* the multiset of the elements of a sequence
BagOf(s) ==
    [ x \in { s[i] : i \in DOMAIN s } |-> Cardinality({ i \in DOMAIN s : s[i] = x }) ]

Last(s) == s[Len(s)]

\* the build has completed without a failure
Completed == pc \in {"built", "exam_written", "done"}

\* the last call of _build_question appended a Question with answers
LastChoice ==
    /\ pc = "loop"
    /\ counter.questions >= 1
    /\ doc.answers.some
    /\ doc.answers.val # <<>>

\* the last call of _build_question appended a Question without answers
LastOpen ==
    /\ pc = "loop"
    /\ counter.questions >= 1
    /\ doc.question.some
    /\ doc.question.val # <<>>
    /\ (~doc.answers.some \/ doc.answers.val = <<>>)

\* the texts displayed at the indexes of correct
CorrectTexts(ans, correct) == { ans[correct[k] + 1] : k \in DOMAIN correct }

\* the 0-based positions of the entries that begin with '+', in order
PlusPositions(ans) ==
    SelectSeq([i \in 1..Len(ans) |-> i - 1],
              LAMBDA k : startswith(ans[k + 1], "+"))

\* a text without its leading '+' and at most one space after it
StripLeading(x) ==
    IF startswith(x, "+")
    THEN IF Len(x) >= 2 /\ x[2] = " "
         THEN SubSeq(x, 3, Len(x))
         ELSE Tail(x)
    ELSE x

\* C1: a build of N blocks that completes without a failure ends with
\* exactly N Questions whose ids are exactly 1..N, shuffled or not.
C1_IdsContiguous ==
    Completed =>
        /\ Len(questions) = counter.questions
        /\ { questions[i].id : i \in DOMAIN questions } = 1..counter.questions

C1_Witness ==
    /\ pc = "built"
    /\ metadata["shuffle-questions"]
    /\ Len(questions) >= 2
    /\ questions[1].id = 2

\* C2: every Question of format choice has answers and, when
\* require-correct is enabled, a correct index; a block with answers none of
\* which is marked, built with require-correct enabled, aborts the build
\* and adds no Question.
C2_ChoiceValid ==
    /\ \A i \in DOMAIN questions :
          questions[i].format = "choice" =>
              /\ questions[i].answers.some
              /\ questions[i].answers.val # <<>>
              /\ metadata["require-correct"] =>
                    /\ questions[i].correct.some
                    /\ questions[i].correct.val # <<>>
    /\ ( /\ pc \in {"loop", "exited"}
         /\ counter.questions >= 1
         /\ doc.question.some /\ doc.question.val # <<>>
         /\ doc.answers.some /\ doc.answers.val # <<>>
         /\ \A i \in DOMAIN doc.answers.val : ~startswith(doc.answers.val[i], "+")
         /\ metadata["require-correct"] )
       => /\ pc = "exited"
          /\ diag.kind = "need_correct"
          /\ Len(questions) = counter.questions - 1

C2_Witness ==
    /\ pc = "exited"
    /\ diag.kind = "need_correct"
    /\ \E i \in DOMAIN questions : questions[i].format = "choice"

\* C3: once a block has failed validation, neither the exam nor the key
\* is written.
C3_NoWriteAfterFailure ==
    diag.kind # "none" => ~exam_written /\ ~key_written

C3_Witness ==
    /\ pc = "exited"
    /\ diag.kind # "none"
    /\ Len(questions) >= 1

\* C4: a fatal validation failure ends the process with a non-zero exit
\* status.
C4_NonZeroExit ==
    (pc = "exited" /\ diag.kind # "none") =>
        /\ exit_status # <<>>
        /\ exit_status[1] # 0

\* C5: the displayed text of an answer is its source text without the
\* leading '+' and at most one space after it, every other character kept.
C5_LeadingOnly ==
    LastChoice =>
        \A i \in DOMAIN answers :
            Last(questions).answers.val[i] = StripLeading(answers[i])

\* C6: whatever permutation the answer shuffle applies, the displayed texts
\* are the same collection, and the texts at the indexes of correct the same
\* set, as without the shuffle.
C6_ShuffleInvariant ==
    LastChoice =>
        LET unshuffled == strip_keys(doc.answers.val)
            correct == get_indexes_for_answers(doc.answers.val)
            q == Last(questions)
        IN  /\ BagOf(q.answers.val) = BagOf(unshuffled)
            /\ CorrectTexts(q.answers.val, q.correct.val)
                  = CorrectTexts(unshuffled, correct)

C6_Witness ==
    /\ LastChoice
    /\ metadata["shuffle-answers"]
    /\ answers # doc.answers.val
    /\ Last(questions).correct.val # <<>>

\* C7: the shuffle of the questions changes their order only: the collection
\* holds the same Questions, fields unchanged, after it as before it.
C7_ShuffleQuestionsFrame ==
    [][(pc = "loop" /\ pc' = "built") => BagOf(questions') = BagOf(questions)]_vars

C7_Witness ==
    /\ pc = "built"
    /\ metadata["shuffle-questions"]
    /\ Len(questions) >= 2
    /\ questions[1].id > questions[2].id
    /\ questions[1].format = "choice"

C9_CorrectPositions ==
    LastChoice => Last(questions).correct.val = PlusPositions(answers)

\* C10: when the k-th block has no question, the position reported in the
\* diagnostic is k.
C10_ReportedPosition ==
    diag.kind = "empty" => diag.pos = Len(questions) + 1

====
